---- MODULE Spec2Model ----
(***************************************************************************)
(* The anisotropy example (examples/3d/anisotropy.rs) as a state machine.  *)
(*                                                                         *)
(* One frame of the Update schedule is a run of the five systems           *)
(* registered in main.  Only handle_input -> update_help_text is ordered   *)
(* (.chain()); the other systems carry no ordering constraint, so they may *)
(* run in any position.  Commands are deferred: they are queued by the     *)
(* system and applied at the sync point that the chain places between      *)
(* handle_input and update_help_text, and at the end of the schedule.      *)
(* Asset loading and the spawning of the glTF scene happen outside the     *)
(* Update schedule, between frames.                                        *)
(***************************************************************************)
EXTENDS Integers, FiniteSets, Sequences, TLC

\* ---------------------------------------------------------------- bounds
\* Largest value of Time::elapsed explored (in ticks).
MaxTime == 2
\* Largest Time::delta of one frame (in ticks); 0 is a frame with no time.
MaxDelta == 1
\* Number of meshes with a material that the glTF barn lamp scene spawns.
NumLampMeshes == 1
\* Size of the pool of entity ids that light entities are allocated from.
MaxLights == 2

\* ------------------------------------------------------------ vocabulary
LightModes == {"Directional", "Point", "EnvironmentMap"}
Scenes == {"BarnLamp", "Sphere"}
Keys == {"Space", "Enter", "KeyQ"}
Systems == {"create_material_variants", "animate_light", "rotate_camera",
            "handle_input", "update_help_text"}

\* The mesh spawned by setup (the sphere) and the meshes of the glTF scene.
SphereMesh == 1
Meshes == 1..(1 + NumLampMeshes)
LampMeshes == Meshes \ {SphereMesh}
\* Handles of Assets<StandardMaterial>.  Handle m is the handle that mesh m
\* is spawned with; the others are free for Assets::add.
MaterialIds == 1..(3 * (1 + NumLampMeshes))
LightIds == 1..MaxLights

\* Transform of a freshly spawned light (Transform::default()).
IdentityTransform == -1

Min(S) == CHOOSE x \in S : \A y \in S : x <= y

VARIABLES
    app_status,   \* Res<AppStatus>: light_mode, anisotropy_enabled, visible_scene
    lights,       \* light entities: LightIds -> [kind, transform]
    camera,       \* the Camera3d entity: transform (angle), Skybox, EnvironmentMapLight
    visibility,   \* Visibility of the entity tagged with each Scene
    meshes,       \* mesh entities: spawned, Added<MeshMaterial3d>, material, MaterialVariants
    assets,       \* Assets<StandardMaterial>
    text,         \* the Text of the help overlay, as its lines
    stopwatch,    \* Local<Stopwatch> of rotate_camera (elapsed ticks)
    elapsed,      \* Time::elapsed (ticks)
    delta,        \* Time::delta of the current frame
    keyboard,     \* ButtonInput<KeyCode>: keys just pressed in the current frame
    phase,        \* "idle" between frames, "update" while the Update schedule runs
    ran,          \* systems that have run in the current frame
    synced,       \* the sync point after handle_input has run in this frame
    cmv_commands, \* Commands queued by create_material_variants, not yet applied
    hi_commands   \* Commands queued by handle_input, not yet applied

vars == <<app_status, lights, camera, visibility, meshes, assets, text,
          stopwatch, elapsed, delta, keyboard, phase, ran, synced,
          cmv_commands, hi_commands>>

\* ------------------------------------------------------------ components
NoLight == [kind |-> "None", transform |-> IdentityTransform]
NoVariants == [anisotropic |-> 0, isotropic |-> 0]
NoAsset == [present |-> FALSE, source |-> 0, anisotropy_strength |-> 0,
            anisotropy_rotation |-> 0, anisotropy_texture |-> FALSE]

\* The sphere's material: setup hands the asset itself to the asset server
\* (asset_server.add), so it is in the store when the first frame runs.  The
\* materials of the glTF file are loaded asynchronously.
SphereMaterial ==
    [present |-> TRUE, source |-> SphereMesh, anisotropy_strength |-> 1,
     anisotropy_rotation |-> 1, anisotropy_texture |-> FALSE]

\* A deferred command.
Command(op, entity, a, b) == [op |-> op, entity |-> entity, a |-> a, b |-> b]

\* impl Default for AppStatus
AppStatusDefault ==
    [light_mode |-> "Directional", anisotropy_enabled |-> TRUE,
     visible_scene |-> "BarnLamp"]

\* Scene::next
SceneNext(scene) ==
    CASE scene = "BarnLamp" -> "Sphere"
      [] scene = "Sphere" -> "BarnLamp"

\* impl Display for Scene
SceneDisplay(scene) ==
    CASE scene = "BarnLamp" -> "Barn Lamp"
      [] scene = "Sphere" -> "Sphere"

\* A faulty create_help_text: the third line names the scene that is shown.
create_help_text_NamesShown(status) ==
    <<IF status.anisotropy_enabled
      THEN "Press Enter to disable anisotropy"
      ELSE "Press Enter to enable anisotropy",
      CASE status.light_mode = "Directional" ->
              "Press Space to switch to a point light"
        [] status.light_mode = "Point" ->
              "Press Space to switch to an environment map"
        [] status.light_mode = "EnvironmentMap" ->
              "Press Space to switch to a directional light",
      "Press Q to change to " \o SceneDisplay(status.visible_scene)>>

\* AppStatus::create_help_text.  The Text is the three lines joined by "\n";
\* it is kept as the sequence of its lines.
create_help_text(status) ==
    LET material_variant_help_text ==
            IF status.anisotropy_enabled
            THEN "Press Enter to disable anisotropy"
            ELSE "Press Enter to enable anisotropy"
        light_help_text ==
            CASE status.light_mode = "Directional" ->
                    "Press Space to switch to a point light"
              [] status.light_mode = "Point" ->
                    "Press Space to switch to an environment map"
              [] status.light_mode = "EnvironmentMap" ->
                    "Press Space to switch to a directional light"
        mesh_help_text ==
            "Press Q to change to " \o SceneDisplay(SceneNext(status.visible_scene))
    IN <<material_variant_help_text, light_help_text, mesh_help_text>>

\* A faulty just_pressed: true of every key in every frame.
just_pressed_Always(kb, key) == TRUE

\* A faulty just_pressed: true of every key as soon as any key is pressed.
just_pressed_AnyKey(kb, key) == kb # {}

\* ButtonInput::just_pressed
just_pressed(kb, key) == key \in kb

\* ------------------------------------------------------- deferred commands
\* Entity id reserved by Commands::spawn: ids are reserved when the command
\* is issued, before it is applied.
ReserveLight(ls, queue) ==
    Min({e \in LightIds :
            /\ ls[e].kind = "None"
            /\ \A i \in 1..Len(queue) :
                  ~(queue[i].op = "spawn" /\ queue[i].entity = e)})

\* spawn_directional_light
spawn_directional_light(ls, queue) ==
    Append(queue, Command("spawn", ReserveLight(ls, queue), "DirectionalLight", 0))

\* spawn_point_light
spawn_point_light(ls, queue) ==
    Append(queue, Command("spawn", ReserveLight(ls, queue), "PointLight", 0))

\* add_skybox_and_environment_map
add_skybox_and_environment_map(queue) ==
    queue \o <<Command("insert", 0, "Skybox", 0),
               Command("insert", 0, "EnvironmentMapLight", 0)>>

\* The lights query of handle_input: Or<(With<DirectionalLight>, With<PointLight>)>
LightEntities(ls) ==
    {e \in LightIds : ls[e].kind \in {"DirectionalLight", "PointLight"}}

RECURSIVE DespawnAll(_, _)
\* for light in lights.iter() { commands.entity(light).despawn(); }
DespawnAll(es, queue) ==
    IF es = {} THEN queue
    ELSE DespawnAll(es \ {Min(es)}, Append(queue, Command("despawn", Min(es), 0, 0)))

\* One command applied to the world w = [lights, camera, meshes].
ApplyCommand(w, c) ==
    CASE c.op = "despawn" ->
            [w EXCEPT !.lights[c.entity] = NoLight]
      [] c.op = "spawn" ->
            [w EXCEPT !.lights[c.entity] =
                        [kind |-> c.a, transform |-> IdentityTransform]]
      [] c.op = "insert" /\ c.a = "Skybox" ->
            [w EXCEPT !.camera.skybox = TRUE]
      [] c.op = "insert" /\ c.a = "EnvironmentMapLight" ->
            [w EXCEPT !.camera.environment_map_light = TRUE]
      [] c.op = "remove" /\ c.a = "Skybox" ->
            [w EXCEPT !.camera.skybox = FALSE]
      [] c.op = "remove" /\ c.a = "EnvironmentMapLight" ->
            [w EXCEPT !.camera.environment_map_light = FALSE]
      [] c.op = "insert_variants" ->
            [w EXCEPT !.meshes[c.entity].variants =
                        [anisotropic |-> c.a, isotropic |-> c.b]]

RECURSIVE ApplyQueue(_, _)
ApplyQueue(w, queue) ==
    IF queue = <<>> THEN w
    ELSE ApplyQueue(ApplyCommand(w, Head(queue)), Tail(queue))

\* Every queued command of the systems that have run, applied to the world.
Flush ==
    ApplyQueue([lights |-> lights, camera |-> camera, meshes |-> meshes],
               cmv_commands \o hi_commands)

\* ------------------------------------------------------------------ setup
\* The state after the Startup schedule (setup, its commands applied).
Init ==
    /\ app_status = AppStatusDefault
    /\ lights = [e \in LightIds |->
                    IF e = 1
                    THEN [kind |-> "DirectionalLight", transform |-> IdentityTransform]
                    ELSE NoLight]
    /\ camera = [transform |-> 0, skybox |-> FALSE, environment_map_light |-> FALSE]
    /\ visibility = [s \in Scenes |-> IF s = "BarnLamp" THEN "Inherited" ELSE "Hidden"]
    /\ meshes = [m \in Meshes |->
                    [spawned |-> (m = SphereMesh), added |-> (m = SphereMesh),
                     material |-> m, variants |-> NoVariants]]
    /\ assets = [h \in MaterialIds |->
                    IF h = SphereMesh THEN SphereMaterial ELSE NoAsset]
    /\ text = create_help_text(AppStatusDefault)
    /\ stopwatch = 0
    /\ elapsed = 0
    /\ delta = 0
    /\ keyboard = {}
    /\ phase = "idle"
    /\ ran = {}
    /\ synced = FALSE
    /\ cmv_commands = <<>>
    /\ hi_commands = <<>>

\* ------------------------------------------------- outside the schedule
\* The asset server finishes loading a material of the glTF file: the asset
\* behind handle h appears in Assets<StandardMaterial>.
LoadMaterial(h) ==
    /\ phase = "idle"
    /\ ~assets[h].present
    /\ assets' = [assets EXCEPT ![h] =
                    [present |-> TRUE, source |-> h, anisotropy_strength |-> 1,
                     anisotropy_rotation |-> 1, anisotropy_texture |-> TRUE]]
    /\ UNCHANGED <<app_status, lights, camera, visibility, meshes, text,
                   stopwatch, elapsed, delta, keyboard, phase, ran, synced,
                   cmv_commands, hi_commands>>

\* The scene spawner instantiates the SceneRoot spawned by setup: the meshes
\* of the barn lamp appear, each with a newly added MeshMaterial3d.
SpawnScene ==
    /\ phase = "idle"
    /\ \E m \in LampMeshes : ~meshes[m].spawned
    /\ meshes' = [m \in Meshes |->
                    IF m \in LampMeshes
                    THEN [meshes[m] EXCEPT !.spawned = TRUE, !.added = TRUE]
                    ELSE meshes[m]]
    /\ UNCHANGED <<app_status, lights, camera, visibility, assets, text,
                   stopwatch, elapsed, delta, keyboard, phase, ran, synced,
                   cmv_commands, hi_commands>>

\* A frame starts: the engine publishes the frame's time and the keys that
\* were just pressed, then runs the Update schedule.
BeginFrame(keys, d) ==
    /\ phase = "idle"
    /\ elapsed + d <= MaxTime
    /\ keyboard' = keys
    /\ delta' = d
    /\ elapsed' = elapsed + d
    /\ phase' = "update"
    /\ UNCHANGED <<app_status, lights, camera, visibility, meshes, assets,
                   text, stopwatch, ran, synced, cmv_commands, hi_commands>>

\* ---------------------------------------------------------------- systems
\* A system may run when the schedule is running and it has not run yet in
\* this frame.
MayRun(system) == phase = "update" /\ system \notin ran

\* The copy of a material with the anisotropy removed.
Isotropic(material) ==
    [material EXCEPT !.anisotropy_texture = FALSE,
                     !.anisotropy_strength = 0,
                     !.anisotropy_rotation = 0]

\* Assets::add: the handle of the newly stored asset.
AssetsAdd(store) ==
    Min({h \in MaterialIds : h \notin Meshes /\ ~store[h].present})

\* A faulty query: both filters are missing, every mesh is returned.
NewMeshes_Unfiltered(ms) == {m \in Meshes : ms[m].spawned}

\* The new_meshes query: Added<MeshMaterial3d>, Without<MaterialVariants>.
NewMeshes(ms) ==
    {m \in Meshes : ms[m].spawned /\ ms[m].added /\ ms[m].variants = NoVariants}

RECURSIVE VariantsLoop(_, _, _, _)
\* The loop of create_material_variants over the entities `todo`.
VariantsLoop(todo, ms, store, queue) ==
    IF todo = {} THEN [assets |-> store, commands |-> queue]
    ELSE LET entity == Min(todo)
             anisotropic_material_handle == ms[entity].material
         IN IF ~store[anisotropic_material_handle].present
            THEN VariantsLoop(todo \ {entity}, ms, store, queue)
            ELSE LET isotropic == AssetsAdd(store)
                 IN VariantsLoop(
                        todo \ {entity}, ms,
                        [store EXCEPT ![isotropic] =
                            Isotropic(store[anisotropic_material_handle])],
                        Append(queue,
                               Command("insert_variants", entity,
                                       anisotropic_material_handle, isotropic)))

create_material_variants ==
    /\ MayRun("create_material_variants")
    /\ LET out == VariantsLoop(NewMeshes(meshes), meshes, assets, cmv_commands)
       IN /\ assets' = out.assets
          /\ cmv_commands' = out.commands
    \* the system has now seen every MeshMaterial3d added so far
    /\ meshes' = [m \in Meshes |-> [meshes[m] EXCEPT !.added = FALSE]]
    /\ ran' = ran \cup {"create_material_variants"}
    /\ UNCHANGED <<app_status, lights, camera, visibility, text, stopwatch,
                   elapsed, delta, keyboard, phase, synced, hi_commands>>

animate_light ==
    /\ MayRun("animate_light")
    /\ lights' = [e \in LightIds |->
                    IF e \in LightEntities(lights)
                    THEN [lights[e] EXCEPT !.transform = elapsed]
                    ELSE lights[e]]
    /\ ran' = ran \cup {"animate_light"}
    /\ UNCHANGED <<app_status, camera, visibility, meshes, assets, text,
                   stopwatch, elapsed, delta, keyboard, phase, synced,
                   cmv_commands, hi_commands>>

\* A faulty tick: the guard on the light mode is missing.
StopwatchTick_Always(light_mode, watch, d) == watch + d

\* if app_status.light_mode == LightMode::EnvironmentMap { stopwatch.tick(time.delta()); }
StopwatchTick(light_mode, watch, d) ==
    IF light_mode = "EnvironmentMap" THEN watch + d ELSE watch

rotate_camera ==
    /\ MayRun("rotate_camera")
    /\ stopwatch' = StopwatchTick(app_status.light_mode, stopwatch, delta)
    /\ camera' = [camera EXCEPT !.transform = stopwatch']
    /\ ran' = ran \cup {"rotate_camera"}
    /\ UNCHANGED <<app_status, lights, visibility, meshes, assets, text,
                   elapsed, delta, keyboard, phase, synced, cmv_commands,
                   hi_commands>>

\* A faulty cycle: the light modes are visited in the opposite order.
NextLightMode_Backwards(light_mode) ==
    CASE light_mode = "Directional" -> "EnvironmentMap"
      [] light_mode = "Point" -> "Directional"
      [] light_mode = "EnvironmentMap" -> "Point"

\* The light mode that Space switches to.
NextLightMode(light_mode) ==
    CASE light_mode = "Directional" -> "Point"
      [] light_mode = "Point" -> "EnvironmentMap"
      [] light_mode = "EnvironmentMap" -> "Directional"

\* Faulty commands: leaving Directional mode does not despawn the old light.
LightCommands_KeepsOldLights(light_mode, ls, queue) ==
    CASE light_mode = "Directional" ->
            spawn_point_light(ls, queue)
      [] light_mode = "Point" ->
            add_skybox_and_environment_map(DespawnAll(LightEntities(ls), queue))
      [] light_mode = "EnvironmentMap" ->
            spawn_directional_light(
                ls, queue \o <<Command("remove", 0, "Skybox", 0),
                               Command("remove", 0, "EnvironmentMapLight", 0)>>)

\* The commands that Space queues when pressed in light_mode.
LightCommands(light_mode, ls, queue) ==
    CASE light_mode = "Directional" ->
            LET despawned == DespawnAll(LightEntities(ls), queue)
            IN spawn_point_light(ls, despawned)
      [] light_mode = "Point" ->
            LET despawned == DespawnAll(LightEntities(ls), queue)
            IN add_skybox_and_environment_map(despawned)
      [] light_mode = "EnvironmentMap" ->
            LET removed == queue \o <<Command("remove", 0, "Skybox", 0),
                                      Command("remove", 0, "EnvironmentMapLight", 0)>>
            IN spawn_directional_light(ls, removed)

\* The meshes query of handle_input: meshes that carry MaterialVariants.
Tracked(ms) == {m \in Meshes : ms[m].spawned /\ ms[m].variants # NoVariants}

\* A faulty toggle: the two variants are taken the wrong way round.
ToggleMaterials_Swapped(anisotropy_enabled, ms) ==
    [m \in Meshes |->
        IF ms[m].spawned /\ ms[m].variants # NoVariants
        THEN [ms[m] EXCEPT !.material =
                IF anisotropy_enabled
                THEN ms[m].variants.isotropic
                ELSE ms[m].variants.anisotropic]
        ELSE ms[m]]

\* Go through each mesh and alter its material.
ToggleMaterials(anisotropy_enabled, ms) ==
    [m \in Meshes |->
        IF m \in Tracked(ms)
        THEN [ms[m] EXCEPT !.material =
                IF anisotropy_enabled
                THEN ms[m].variants.anisotropic
                ELSE ms[m].variants.isotropic]
        ELSE ms[m]]

\* Faulty visibilities: the comparison with visible_scene is inverted.
SetVisibilities_Inverted(visible_scene) ==
    [scene \in Scenes |->
        IF scene = visible_scene THEN "Hidden" ELSE "Inherited"]

\* Faulty visibilities: the scene that is left is not hidden.
SetVisibilities_NeverHides(visible_scene) ==
    [scene \in Scenes |-> "Inherited"]

\* The visibility of every scene-tagged entity once visible_scene is shown.
SetVisibilities(visible_scene) ==
    [scene \in Scenes |->
        IF scene = visible_scene THEN "Inherited" ELSE "Hidden"]

handle_input ==
    /\ MayRun("handle_input")
    /\ LET space == just_pressed(keyboard, "Space")
           enter == just_pressed(keyboard, "Enter")
           key_q == just_pressed(keyboard, "KeyQ")
           s1 == IF space
                 THEN [app_status EXCEPT !.light_mode = NextLightMode(@)]
                 ELSE app_status
           s2 == IF enter
                 THEN [s1 EXCEPT !.anisotropy_enabled = ~@]
                 ELSE s1
           s3 == IF key_q
                 THEN [s2 EXCEPT !.visible_scene = SceneNext(@)]
                 ELSE s2
       IN /\ hi_commands' =
                IF space
                THEN LightCommands(app_status.light_mode, lights, hi_commands)
                ELSE hi_commands
          /\ meshes' =
                IF enter
                THEN ToggleMaterials(s2.anisotropy_enabled, meshes)
                ELSE meshes
          /\ visibility' =
                IF key_q THEN SetVisibilities(s3.visible_scene) ELSE visibility
          /\ app_status' = s3
    /\ ran' = ran \cup {"handle_input"}
    /\ UNCHANGED <<lights, camera, assets, text, stopwatch, elapsed, delta,
                   keyboard, phase, synced, cmv_commands>>

\* The sync point that .chain() places between handle_input and
\* update_help_text: the queued commands of the systems run so far are applied.
ApplyDeferred ==
    /\ phase = "update"
    /\ "handle_input" \in ran
    /\ ~synced
    /\ lights' = Flush.lights
    /\ camera' = Flush.camera
    /\ meshes' = Flush.meshes
    /\ cmv_commands' = <<>>
    /\ hi_commands' = <<>>
    /\ synced' = TRUE
    /\ UNCHANGED <<app_status, visibility, assets, text, stopwatch, elapsed,
                   delta, keyboard, phase, ran>>

\* A faulty schedule: the two systems are registered without .chain().
ChainAllows_Unordered == TRUE

\* A faulty update_help_text: it runs but does not write the Text.
update_help_text_KeepsText ==
    /\ phase = "update" /\ "update_help_text" \notin ran
    /\ "handle_input" \in ran /\ synced
    /\ ran' = ran \cup {"update_help_text"}
    /\ UNCHANGED <<app_status, lights, camera, visibility, meshes, assets,
                   text, stopwatch, elapsed, delta, keyboard, phase, synced,
                   cmv_commands, hi_commands>>

\* (handle_input, update_help_text).chain(): update_help_text runs after
\* handle_input and the sync point.
ChainAllows == "handle_input" \in ran /\ synced

update_help_text ==
    /\ MayRun("update_help_text")
    /\ ChainAllows
    /\ text' = create_help_text(app_status)
    /\ ran' = ran \cup {"update_help_text"}
    /\ UNCHANGED <<app_status, lights, camera, visibility, meshes, assets,
                   stopwatch, elapsed, delta, keyboard, phase, synced,
                   cmv_commands, hi_commands>>

\* The end of the Update schedule: every system has run, the commands still
\* queued are applied, and the frame's input is over.
EndFrame ==
    /\ phase = "update"
    /\ ran = Systems
    /\ lights' = Flush.lights
    /\ camera' = Flush.camera
    /\ meshes' = Flush.meshes
    /\ cmv_commands' = <<>>
    /\ hi_commands' = <<>>
    /\ keyboard' = {}
    /\ delta' = 0
    /\ ran' = {}
    /\ synced' = FALSE
    /\ phase' = "idle"
    /\ UNCHANGED <<app_status, visibility, assets, text, stopwatch, elapsed>>

Next ==
    \/ \E h \in LampMeshes : LoadMaterial(h)
    \/ SpawnScene
    \/ \E keys \in SUBSET Keys, d \in 0..MaxDelta : BeginFrame(keys, d)
    \/ create_material_variants
    \/ animate_light
    \/ rotate_camera
    \/ handle_input
    \/ ApplyDeferred
    \/ update_help_text
    \/ EndFrame

Spec == Init /\ [][Next]_vars

\* ----------------------------------------------------------------- claims
\* A frame boundary: the Update schedule is not running.
FrameBoundary == phase = "idle"

DirectionalLightEntities == {e \in LightIds : lights[e].kind = "DirectionalLight"}
PointLightEntities == {e \in LightIds : lights[e].kind = "PointLight"}

\* The step in which system runs.
Runs(system) == system \notin ran /\ system \in ran'

\* The cycle of light modes, as the specification words it.
LightCycle(mode) ==
    CASE mode = "Directional" -> "Point"
      [] mode = "Point" -> "EnvironmentMap"
      [] mode = "EnvironmentMap" -> "Directional"

\* C1: at every frame boundary the light mode determines the lights and the
\* environment of the scene: Directional is exactly one DirectionalLight, no
\* PointLight and no Skybox/EnvironmentMapLight on the camera; Point is
\* exactly one PointLight, no DirectionalLight and no
\* Skybox/EnvironmentMapLight; EnvironmentMap is no light entity and both
\* Skybox and EnvironmentMapLight on the camera.
C1_LightSetMatchesMode ==
    FrameBoundary =>
        CASE app_status.light_mode = "Directional" ->
                /\ Cardinality(DirectionalLightEntities) = 1
                /\ PointLightEntities = {}
                /\ ~camera.skybox /\ ~camera.environment_map_light
          [] app_status.light_mode = "Point" ->
                /\ Cardinality(PointLightEntities) = 1
                /\ DirectionalLightEntities = {}
                /\ ~camera.skybox /\ ~camera.environment_map_light
          [] app_status.light_mode = "EnvironmentMap" ->
                /\ DirectionalLightEntities = {}
                /\ PointLightEntities = {}
                /\ camera.skybox /\ camera.environment_map_light

\* C1 witness: a frame boundary in Directional mode whose directional light
\* was animated while the stopwatch is running, i.e. the mode has gone
\* round the whole cycle (Space pressed at least three times).
C1_Witness ==
    /\ FrameBoundary
    /\ app_status.light_mode = "Directional"
    /\ stopwatch > 0
    /\ Cardinality(DirectionalLightEntities) = 1

\* C2: light_mode starts as Directional; the step of handle_input in a frame
\* where Space is just pressed advances it by exactly one step of the cycle
\* Directional -> Point -> EnvironmentMap -> Directional; no other step
\* changes it; three advances lead back to the same mode.
C2_LightModeCycle ==
    /\ app_status.light_mode = "Directional"
    /\ [][/\ (Runs("handle_input") /\ "Space" \in keyboard)
                => app_status'.light_mode = LightCycle(app_status.light_mode)
          /\ ~(Runs("handle_input") /\ "Space" \in keyboard)
                => app_status'.light_mode = app_status.light_mode
          /\ NextLightMode(NextLightMode(NextLightMode(app_status.light_mode)))
                = app_status.light_mode]_vars

\* C2 witness: handle_input has just handled a Space press that closed the
\* cycle (the mode is Directional again).
C2_Witness ==
    /\ "handle_input" \in ran
    /\ "Space" \in keyboard
    /\ app_status.light_mode = "Directional"

\* The scenes whose tagged entity is shown, and those whose entity is hidden.
ShownScenes == {s \in Scenes : visibility[s] \in {"Visible", "Inherited"}}
HiddenScenes == {s \in Scenes : visibility[s] = "Hidden"}

\* C3: at all times exactly one of the groups tagged BarnLamp and Sphere has
\* visibility Visible/Inherited and the other has visibility Hidden.
C3_OneSceneVisible ==
    /\ Cardinality(ShownScenes) = 1
    /\ Cardinality(HiddenScenes) = 1

\* C3 witness: Q has been pressed; the sphere is shown and the lamp hidden.
C3_Witness ==
    /\ visibility["Sphere"] = "Inherited"
    /\ visibility["BarnLamp"] = "Hidden"
    /\ "KeyQ" \in keyboard

\* The material variant that a tracked mesh shows for a value of the flag.
VariantFor(anisotropy_enabled, mesh) ==
    IF anisotropy_enabled
    THEN mesh.variants.anisotropic
    ELSE mesh.variants.isotropic

\* C4: toggling anisotropy twice (two Enter presses) restores the material
\* handle of every mesh that carries MaterialVariants: the handle after the
\* second press is the handle before the first.
C4_TwoTogglesRestore ==
    FrameBoundary =>
        LET once == ToggleMaterials(~app_status.anisotropy_enabled, meshes)
            twice == ToggleMaterials(app_status.anisotropy_enabled, once)
        IN \A m \in Tracked(meshes) : twice[m].material = meshes[m].material

\* C5: a mesh that create_material_variants skipped because its material was
\* not resolved is attempted again on the following frames: whenever the
\* system runs while a spawned mesh has no MaterialVariants and its material
\* is in the asset store, the system attaches MaterialVariants to it.
C5_SkippedMeshRetried ==
    [][Runs("create_material_variants") =>
         \A m \in Meshes :
            (/\ meshes[m].spawned
             /\ meshes[m].variants = NoVariants
             /\ assets[meshes[m].material].present)
            => \E i \in 1..Len(cmv_commands') :
                  /\ cmv_commands'[i].op = "insert_variants"
                  /\ cmv_commands'[i].entity = m]_vars

\* C6: the step of handle_input in a frame where Enter is just pressed
\* negates anisotropy_enabled, and afterwards every mesh that carries
\* MaterialVariants shows its anisotropic variant if the flag is now true and
\* its isotropic variant (anisotropy strength 0) if the flag is now false.
C6_EnterSelectsVariant ==
    [][(Runs("handle_input") /\ "Enter" \in keyboard) =>
         /\ app_status'.anisotropy_enabled = ~app_status.anisotropy_enabled
         /\ \A m \in Tracked(meshes') :
              /\ meshes'[m].material
                    = VariantFor(app_status'.anisotropy_enabled, meshes'[m])
              /\ assets'[meshes'[m].material].present
              /\ (assets'[meshes'[m].material].anisotropy_strength > 0)
                    = app_status'.anisotropy_enabled]_vars

\* C6 witness: handle_input has just handled Enter, anisotropy is now off and
\* every mesh of the scene is tracked and shows its isotropic variant.
C6_Witness ==
    /\ "handle_input" \in ran
    /\ "Enter" \in keyboard
    /\ ~synced
    /\ ~app_status.anisotropy_enabled
    /\ Tracked(meshes) = Meshes
    /\ \A m \in Meshes : meshes[m].material = meshes[m].variants.isotropic

\* C7: at every frame boundary the third line of the help text names the
\* scene whose tagged entity is hidden.
C7_HelpTextNamesHiddenScene ==
    FrameBoundary =>
        \E s \in Scenes :
            /\ HiddenScenes = {s}
            /\ text[3] = "Press Q to change to " \o SceneDisplay(s)

\* C7 witness: a frame boundary after Q, where the lamp is hidden and named.
C7_Witness ==
    /\ FrameBoundary
    /\ visibility["BarnLamp"] = "Hidden"
    /\ text[3] = "Press Q to change to Barn Lamp"

\* The systems that run before system in the order the specification gives.
RunsBefore(system) ==
    CASE system = "create_material_variants" -> {}
      [] system = "animate_light" -> {"create_material_variants"}
      [] system = "rotate_camera" -> {"create_material_variants", "animate_light"}
      [] system = "handle_input" ->
            {"create_material_variants", "animate_light", "rotate_camera"}
      [] system = "update_help_text" ->
            {"create_material_variants", "animate_light", "rotate_camera",
             "handle_input"}

\* C8 as stated: in every frame the five callbacks run once each, in the
\* order create_material_variants, animate_light, rotate_camera,
\* handle_input, update_help_text.
C8_FixedOrder ==
    [][\A s \in Systems : Runs(s) => ran = RunsBefore(s)]_vars

\* C8 as amended: in every frame each of the five callbacks runs exactly once
\* (every step of a frame is the first run of one callback or the sync
\* point, and the frame ends only when all five have run), and
\* update_help_text runs after handle_input; no other order is fixed.
C8_OncePerFrameChainOrdered ==
    [][/\ (phase = "update" /\ phase' = "update") =>
            \/ \E s \in Systems : Runs(s) /\ ran' = ran \cup {s}
            \/ ran' = ran /\ ~synced /\ synced'
       /\ (phase = "update" /\ phase' = "idle") => ran = Systems /\ ran' = {}
       /\ (phase = "idle") => ran = {}
       /\ Runs("update_help_text") => "handle_input" \in ran]_vars

\* C8 witness: update_help_text has run in a frame in which rotate_camera
\* and create_material_variants have not run yet.
C8_Witness ==
    /\ "update_help_text" \in ran
    /\ "rotate_camera" \notin ran
    /\ "create_material_variants" \notin ran

\* C9: the stopwatch of rotate_camera advances (by the frame's delta) only in
\* the step of rotate_camera that observes light_mode = EnvironmentMap; in
\* every other step it is unchanged, so it never decreases and is never
\* reset, and the camera angle is always the angle of the stopwatch.
C9_StopwatchOnlyInEnvironmentMap ==
    /\ stopwatch = 0
    /\ [][/\ stopwatch' >= stopwatch
          /\ (Runs("rotate_camera") /\ app_status.light_mode = "EnvironmentMap")
                => stopwatch' = stopwatch + delta
          /\ ~(Runs("rotate_camera") /\ app_status.light_mode = "EnvironmentMap")
                => stopwatch' = stopwatch
          /\ camera'.transform = stopwatch']_vars

\* C9 witness: rotate_camera has run in Point mode with a stopwatch that
\* stopped at MaxTime - 1 when EnvironmentMap mode was left, and in a frame
\* in which time passes.
C9_Witness ==
    /\ "rotate_camera" \in ran
    /\ app_status.light_mode = "Point"
    /\ delta > 0
    /\ stopwatch > 0
    /\ camera.transform = stopwatch

\* The kind of every light entity and the environment of the camera.
LightSet(ls, cam) ==
    <<[e \in LightIds |-> ls[e].kind], cam.skybox, cam.environment_map_light>>

\* The active material of every mesh.
ActiveMaterials(ms) == [m \in Meshes |-> ms[m].material]

\* C10: the three toggles are independent.  In the step of handle_input each
\* of light_mode, anisotropy_enabled and visible_scene advances exactly once
\* if its key is just pressed and is unchanged otherwise; commands for the
\* lights are queued only for Space, materials change only for Enter and
\* visibilities only for Q.  In every step, the light entities and the
\* camera's environment change only in a frame with Space, the active
\* materials only in handle_input with Enter, and the visibilities only in
\* handle_input with Q.
C10_TogglesIndependent ==
    [][/\ Runs("handle_input") =>
            /\ app_status'.light_mode =
                  IF "Space" \in keyboard
                  THEN LightCycle(app_status.light_mode)
                  ELSE app_status.light_mode
            /\ app_status'.anisotropy_enabled =
                  IF "Enter" \in keyboard
                  THEN ~app_status.anisotropy_enabled
                  ELSE app_status.anisotropy_enabled
            /\ app_status'.visible_scene =
                  IF "KeyQ" \in keyboard
                  THEN CHOOSE s \in Scenes : s # app_status.visible_scene
                  ELSE app_status.visible_scene
            /\ "Space" \notin keyboard => hi_commands' = hi_commands
            /\ \A m \in Meshes :
                  [meshes'[m] EXCEPT !.material = meshes[m].material] = meshes[m]
       /\ LightSet(lights', camera') # LightSet(lights, camera)
            => "Space" \in keyboard
       /\ ActiveMaterials(meshes') # ActiveMaterials(meshes)
            => Runs("handle_input") /\ "Enter" \in keyboard
       /\ visibility' # visibility
            => Runs("handle_input") /\ "KeyQ" \in keyboard]_vars

\* C10 witness: handle_input has handled Space, Enter and Q in one frame,
\* starting from the startup status, with a tracked mesh whose material it
\* switched.
C10_Witness ==
    /\ "handle_input" \in ran
    /\ keyboard = Keys
    /\ app_status = [light_mode |-> "Point", anisotropy_enabled |-> FALSE,
                     visible_scene |-> "Sphere"]
    /\ \E m \in Tracked(meshes) : meshes[m].material = meshes[m].variants.isotropic

\* C11: AppStatus starts as (Directional, anisotropy on, BarnLamp) and is
\* written only by handle_input in response to a key press: a step changes
\* app_status only if it is the step of handle_input in a frame where Space,
\* Enter or Q is just pressed; in a frame without them, and in every other
\* callback, light_mode, anisotropy_enabled and visible_scene are unchanged.
C11_StatusWrittenOnlyOnKeyPress ==
    /\ app_status = [light_mode |-> "Directional", anisotropy_enabled |-> TRUE,
                     visible_scene |-> "BarnLamp"]
    /\ [][app_status' # app_status =>
            /\ Runs("handle_input")
            /\ keyboard \cap {"Space", "Enter", "KeyQ"} # {}]_vars

\* C11 witness: every callback of a frame without a key press has run, and
\* the status still is the one that earlier key presses left.
C11_Witness ==
    /\ ran = Systems
    /\ keyboard = {}
    /\ app_status = [light_mode |-> "EnvironmentMap", anisotropy_enabled |-> FALSE,
                     visible_scene |-> "Sphere"]

\* The three lines of the help text for a status, as the specification
\* words them.
HelpLines(status) ==
    <<IF status.anisotropy_enabled
      THEN "Press Enter to disable anisotropy"
      ELSE "Press Enter to enable anisotropy",
      CASE status.light_mode = "Directional" ->
              "Press Space to switch to a point light"
        [] status.light_mode = "Point" ->
              "Press Space to switch to an environment map"
        [] status.light_mode = "EnvironmentMap" ->
              "Press Space to switch to a directional light",
      IF status.visible_scene = "BarnLamp"
      THEN "Press Q to change to Sphere"
      ELSE "Press Q to change to Barn Lamp">>

\* C12: the help text never lags the status: once update_help_text has run
\* in a frame, and at every frame boundary, the text is the three lines
\* derived from the AppStatus as this frame's handle_input left it.
C12_HelpTextUpToDate ==
    (FrameBoundary \/ "update_help_text" \in ran) => text = HelpLines(app_status)

\* C12 witness: the end of a frame in which all three keys were pressed; the
\* text already shows the status that this frame's handle_input produced.
C12_Witness ==
    /\ ran = Systems
    /\ keyboard = Keys
    /\ app_status = [light_mode |-> "Point", anisotropy_enabled |-> FALSE,
                     visible_scene |-> "Sphere"]
    /\ text = <<"Press Enter to enable anisotropy",
                "Press Space to switch to an environment map",
                "Press Q to change to Barn Lamp">>

\* C13: at every frame boundary every mesh that carries MaterialVariants
\* shows the variant that agrees with anisotropy_enabled (the anisotropic one
\* when true, the isotropic one when false), also when its MaterialVariants
\* were attached after Enter had been pressed.
C13_MaterialAgreesWithFlag ==
    FrameBoundary =>
        \A m \in Tracked(meshes) :
            meshes[m].material = VariantFor(app_status.anisotropy_enabled, meshes[m])

\* C14: at every frame boundary the scene that is shown is the one named by
\* visible_scene: the entity tagged with visible_scene is Inherited/Visible
\* and the entity tagged with the other scene is Hidden.
C14_VisibleSceneIsShown ==
    FrameBoundary =>
        /\ ShownScenes = {app_status.visible_scene}
        /\ HiddenScenes = Scenes \ {app_status.visible_scene}

\* C14 witness: a frame boundary at which Q has been pressed an odd number
\* of times: visible_scene is Sphere and the sphere is the entity shown.
C14_Witness ==
    /\ FrameBoundary
    /\ app_status.visible_scene = "Sphere"
    /\ visibility = [s \in Scenes |-> IF s = "Sphere" THEN "Inherited" ELSE "Hidden"]

\* A system has had its run of the current frame (between frames all have).
Done(system) == phase = "idle" \/ system \in ran

\* The status that handle_input leaves when it runs in the current state.
StatusAfterInput ==
    LET s1 == IF just_pressed(keyboard, "Space")
              THEN [app_status EXCEPT !.light_mode = NextLightMode(@)]
              ELSE app_status
        s2 == IF just_pressed(keyboard, "Enter")
              THEN [s1 EXCEPT !.anisotropy_enabled = ~@]
              ELSE s1
    IN IF just_pressed(keyboard, "KeyQ")
       THEN [s2 EXCEPT !.visible_scene = SceneNext(@)]
       ELSE s2

\* The element of a one-element set.  Binding a value as the element of a
\* set computes it once, however often it is used.
TheElement(S) == CHOOSE v \in S : TRUE

\* What the frame ends with if, from the current state on, every system that
\* has not run yet runs now and the queued commands are then applied.
FinalStatus == IF Done("handle_input") THEN app_status ELSE StatusAfterInput

FinalMaterials(status) ==
    IF Done("handle_input") \/ ~just_pressed(keyboard, "Enter")
    THEN ActiveMaterials(meshes)
    ELSE TheElement({ActiveMaterials(ms) :
                        ms \in {ToggleMaterials(status.anisotropy_enabled, meshes)}})

FinalVisibility(status) ==
    IF Done("handle_input") \/ ~just_pressed(keyboard, "KeyQ")
    THEN visibility
    ELSE SetVisibilities(status.visible_scene)

FinalText(status) ==
    IF Done("update_help_text") THEN text ELSE create_help_text(status)

FinalVariantsRun ==
    IF Done("create_material_variants")
    THEN [assets |-> assets, commands |-> cmv_commands]
    ELSE VariantsLoop(NewMeshes(meshes), meshes, assets, cmv_commands)

FinalInputCommands ==
    IF Done("handle_input") \/ ~just_pressed(keyboard, "Space")
    THEN hi_commands
    ELSE LightCommands(app_status.light_mode, lights, hi_commands)

\* The world once the commands of run (the outcome of
\* create_material_variants) and of handle_input are applied.
FinalWorld(run) ==
    TheElement({ApplyQueue([lights |-> lights, camera |-> camera,
                            meshes |-> meshes], queue) :
                    queue \in {run.commands \o FinalInputCommands}})

FinalStopwatch ==
    IF Done("rotate_camera")
    THEN stopwatch
    ELSE StopwatchTick(app_status.light_mode, stopwatch, delta)

\* The end-of-frame state without the stopwatch, given the final status and
\* the outcome run of create_material_variants: status, which light and
\* environment entities exist, MaterialVariants and material assets, active
\* materials, visibilities and help text.
FinalOutcome(status, run) ==
    TheElement({<<status, LightSet(world.lights, world.camera),
                  [m \in Meshes |-> world.meshes[m].variants], run.assets,
                  FinalMaterials(status), FinalVisibility(status),
                  FinalText(status)>> :
                    world \in {FinalWorld(run)}})

FinalStateUntimed ==
    TheElement({FinalOutcome(status, run) :
                    status \in {FinalStatus}, run \in {FinalVariantsRun}})

\* C15 as stated: the end-of-frame state, the camera stopwatch included, is
\* the same for every execution order that the schedule admits: no step of a
\* frame, whichever system takes it, changes what the frame ends with.
C15_EndOfFrameOrderIndependent ==
    [][phase = "update" =>
         /\ FinalStateUntimed' = FinalStateUntimed
         /\ FinalStopwatch' = FinalStopwatch]_vars

\* C15 as amended: the end-of-frame AppStatus, the light and environment
\* entities that exist, the MaterialVariants, the active materials, the
\* visibilities and the help text are the same for every execution order
\* that the schedule admits.
C15_UntimedStateOrderIndependent ==
    [][phase = "update" => FinalStateUntimed' = FinalStateUntimed]_vars

\* C15 witness: a frame in which Space leaves EnvironmentMap mode while time
\* passes, where handle_input and the sync point have run before
\* rotate_camera (the stopwatch is not ticked for this frame).
C15_Witness ==
    /\ phase = "update"
    /\ "Space" \in keyboard
    /\ delta > 0
    /\ app_status.light_mode = "Directional"
    /\ "handle_input" \in ran
    /\ "rotate_camera" \notin ran
    /\ synced
    /\ camera.environment_map_light = FALSE

\* The isotropic materials in the asset store that were made from the
\* material of mesh m.
IsotropicCopies(store, m) ==
    {h \in MaterialIds \ Meshes : store[h].present /\ store[h].source = m}

\* The commands of a queue that insert MaterialVariants on mesh m.
VariantInserts(queue, m) ==
    {i \in 1..Len(queue) :
        queue[i].op = "insert_variants" /\ queue[i].entity = m}

\* C16: create_material_variants attaches MaterialVariants to a mesh at most
\* once and allocates at most one isotropic material for it: it queues no
\* insert for a mesh that carries MaterialVariants and at most one for any
\* mesh, the store holds at most one isotropic copy per mesh, and once
\* attached the recorded handles of a mesh never change, whatever Enter
\* presses follow.
C16_VariantsAttachedOnce ==
    [][\A m \in Meshes :
          /\ Cardinality(VariantInserts(cmv_commands', m)) <= 1
          /\ meshes'[m].variants # NoVariants
                => VariantInserts(cmv_commands', m) = {}
          /\ Cardinality(IsotropicCopies(assets', m)) <= 1
          /\ meshes[m].variants # NoVariants
                => meshes'[m].variants = meshes[m].variants]_vars

\* C16 witness: create_material_variants has run again in a frame after
\* Enter switched a tracked mesh to its isotropic material, and has queued
\* nothing for it.
C16_Witness ==
    /\ "create_material_variants" \in ran
    /\ "handle_input" \notin ran
    /\ cmv_commands = <<>>
    /\ ~app_status.anisotropy_enabled
    /\ \E m \in Tracked(meshes) :
          /\ meshes[m].material = meshes[m].variants.isotropic
          /\ Cardinality(IsotropicCopies(assets, m)) = 1

====
